---- MODULE Spec2Model ----
(***************************************************************************)
(* scalarff: the generic FieldElement algorithms (legendre, sqrt,          *)
(* quadratic_residues_at) over the macro-generated custom ring, together   *)
(* with the decimal and little-endian byte conversions they go through.    *)
(* A field element of the custom ring is its u128 payload; nothing but the *)
(* arithmetic operators reduces it modulo the ring's modulus.              *)
(***************************************************************************)
EXTENDS Integers, Sequences, FiniteSets, TLC

VARIABLES
    modulus,   \* $modulus of the custom_ring! instance under test
    pc,        \* position of the call in progress
    op,        \* the operation that was called
    arg,       \* the element (or integer) the operation was called with
    sq_of,     \* test_sqrt: the x whose square is arg (-1 when arg is direct)
    n,         \* sqrt: the witness-search cursor `x`
    st,        \* sqrt: [a, b, apow, bpow, iters] of the halving loop
    start,     \* quadratic_residues_at: start
    count,     \* quadratic_residues_at: count
    cand,      \* quadratic_residues_at: the candidate integer `x`
    out,       \* quadratic_residues_at: the triples pushed so far
    classified,\* quadratic_residues_at: candidates handed to legendre so far
    ret,       \* the value returned, once pc = "done"
    why,       \* the panic message class, once pc = "panic"
    trip,      \* round trip / from_biguint: the intermediate encodings
    acc,       \* arithmetic: the element the last construction or operator left
    last,      \* arithmetic: the last operator applied, its operands and outcome
    shown,     \* lower60_string: the payload bytes, plain_str, l60_str, the result
    logf,      \* log_floor: e, b and the loop's x and i
    transcript,\* timing: the Vec behind the static TRANSCRIPT
    lock,      \* timing: the RwLock's writer (0: none) and its readers
    stack,     \* timing: per thread, its stat_exec / summary_exec calls in progress
    calls,     \* timing: stat_exec calls begun so far; a call's number is its name
    returned,  \* timing: the names of the stat_exec calls that have returned
    runner     \* timing: the thread whose closure is running a core operation

\* the element register and the record of the last operator
calcVars == <<acc, last>>

\* what lower60_string and log_floor work on
textVars == <<shown, logf>>

\* the timing ledger and those who use it
ledgerVars == <<transcript, lock, stack, calls, returned, runner>>

vars == <<modulus, pc, op, arg, sq_of, n, st, start, count, cand, out,
          classified, ret, why, trip, calcVars, textVars, ledgerVars>>

(***************************************************************************)
(* Bounds of the model.                                                    *)
(***************************************************************************)
\* the odd primes the custom ring is instantiated with (13 is the tests' own)
Moduli == {3, 5, 7, 11, 13}
\* largest u64 handed to From<u64> / largest payload of an input element
MaxElem == 30
\* largest `start` of a scan
MaxStart == 16
\* largest `count` of a scan
MaxCount == 7
\* largest u64 an arithmetic operand or register is constructed from
MaxOperand == 14
\* log_floor: the iterations after which a loop that never ends is cut
MaxSteps == 6
\* lower60_string: the parts a u128 payload is put together from
LowWords == {0, 1, 16777215}
MidWords == {0, 1, 1000, 100000, 10000000, 2147483647}
TopBytes == {0, 15, 16, 32, 255}
HighWords == {0, 1, 256}
\* timing: the threads that call stat_exec and summary_exec
Threads == {1, 2}
\* timing: how deep closures call stat_exec or summary_exec again
MaxDepth == 2
\* timing: the stat_exec calls of a run
MaxCalls == 3
\* timing: the elapsed times, in ms, a call can measure
Durations == {0, 1}
\* timing: the elements a closure hands to legendre and sqrt
ClosureElems == {0, 2, 4}
\* timing: the <<start, count>> a closure hands to quadratic_residues_at
ClosureScans == {<<1, 2>>}
\* payloads whose encodings take more than one byte or digit
WidePayloads == {255, 256, 257, 1000, 65535, 65536, 70000, 16777216,
                 2147483647}
\* the payloads the conversions are applied to
TripValues == (0..MaxElem) \cup WidePayloads

(***************************************************************************)
(* The outcome of a call that may panic.                                   *)
(***************************************************************************)
Ok(v) == [panic |-> FALSE, why |-> "", val |-> v]

Panic(w) == [panic |-> TRUE, why |-> w, val |-> 0]

(***************************************************************************)
(* Decimal strings: u128::to_string, str::parse::<u128>, BigUint::from_str *)
(***************************************************************************)
RECURSIVE NatToDigits(_)
NatToDigits(v) ==
    IF v < 10 THEN <<v>> ELSE Append(NatToDigits(v \div 10), v % 10)

RECURSIVE DigitsToNat(_)
DigitsToNat(s) ==
    IF s = <<>> THEN 0
    ELSE 10 * DigitsToNat(SubSeq(s, 1, Len(s) - 1)) + s[Len(s)]

Serialize(x) == NatToDigits(x)

Deserialize(s) == DigitsToNat(s)

RECURSIVE HexDigitsToNat(_)
HexDigitsToNat(s) ==
    IF s = <<>> THEN 0
    ELSE 16 * HexDigitsToNat(SubSeq(s, 1, Len(s) - 1)) + s[Len(s)]

\* the string read in radix 16: BigUint::parse_bytes(s, 16)
BigUintFromStrHex(s) == HexDigitsToNat(s)

\* BigUint::from_str(&e.serialize()).unwrap()
BigUintFromStr(s) == DigitsToNat(s)

(***************************************************************************)
(* Little-endian bytes.                                                    *)
(***************************************************************************)
U128Bytes == 16

RECURSIVE LeBytes(_, _)
\* the k low bytes of v, least significant first
LeBytes(v, k) ==
    IF k = 0 THEN <<>> ELSE <<v % 256>> \o LeBytes(v \div 256, k - 1)

RECURSIVE BytesLeToNat(_)
\* BigUint::from_bytes_le / u128::from_le_bytes
BytesLeToNat(bs) ==
    IF bs = <<>> THEN 0 ELSE bs[1] + 256 * BytesLeToNat(Tail(bs))

RECURSIVE MinLen(_)
\* number of bytes BigUint::to_bytes_le emits: no trailing zero byte, [0] for 0
MinLen(v) == IF v < 256 THEN 1 ELSE 1 + MinLen(v \div 256)

BigUintToBytesLe(v) == LeBytes(v, MinLen(v))

\* custom_ring!: self.0.to_le_bytes().to_vec()
ToBytesLe(x) == LeBytes(x, U128Bytes)

\* from_bytes_le with the length test off by one: 16 bytes are refused
FromBytesLeStrict(bytes) ==
    IF Len(bytes) >= U128Bytes THEN Panic("bytes")
    ELSE Ok(BytesLeToNat(bytes))

\* custom_ring!: pad to 16 bytes, try_into().unwrap() fails on more than 16
FromBytesLe(bytes) ==
    LET padded == IF Len(bytes) < U128Bytes
                  THEN bytes \o [i \in 1..(U128Bytes - Len(bytes)) |-> 0]
                  ELSE bytes
    IN  IF Len(padded) # U128Bytes
        THEN Panic("bytes")
        ELSE Ok(BytesLeToNat(padded))

ToBiguint(x) == BytesLeToNat(ToBytesLe(x))

FromBiguint(v) == FromBytesLe(BigUintToBytesLe(v))

(***************************************************************************)
(* custom_ring! arithmetic on u128 payloads.                               *)
(***************************************************************************)
Zero == 0

One == 1

FromU64(value) == value

FromUsize(value) == FromU64(value)

Add(x, y) == (x + y) % modulus

Mul(x, y) == (x * y) % modulus

Neg(x) == (modulus - x) % modulus

\* prime() without the + 1
PrimeNoPlusOne == ToBiguint(Neg(One))

\* the default FieldElement::prime()
Prime == ToBiguint(Neg(One)) + 1

\* BigUint::modinv: None when no inverse exists
HasInv(y) == \E i \in 0..(Prime - 1) : (y * i) % Prime = 1

ModInv(y) == CHOOSE i \in 0..(Prime - 1) : (y * i) % Prime = 1

\* Div::div panics with "Division by zero" when modinv returns None
DivPanics(y) == ~HasInv(ToBiguint(y))

Div(x, y) == (x * ModInv(ToBiguint(y))) % modulus

RECURSIVE ModPow(_, _, _)
\* BigUint::modpow
ModPow(base, e, m) ==
    IF e = 0 THEN 1 % m ELSE (base * ModPow(base, e - 1, m)) % m

(***************************************************************************)
(* The operators as calls that may fail. The payload is a u128: a          *)
(* subtraction below zero panics where overflow checks are compiled in     *)
(* (debug and test builds) and wraps modulo 2^128 where they are not       *)
(* (release builds), so such a call has two possible outcomes. Sums and    *)
(* products stay far below 2^128 for the payloads of this model.           *)
(***************************************************************************)
RECURSIVE SquareTimes(_, _, _)
\* v^(2^k) mod m
SquareTimes(v, k, m) ==
    IF k = 0 THEN v % m ELSE SquareTimes((v * v) % m, k - 1, m)

\* 2^128 mod m, the u128 range being 2^(2^7)
U128RangeMod(m) == SquareTimes(2, 7, m)

\* a negative intermediate wrapped to u128 and reduced: (raw + 2^128) % modulus
WrapMod(raw) == ((raw % modulus) + U128RangeMod(modulus)) % modulus

Sub(x, y) == (x + modulus - y) % modulus

\* the u128 intermediate each operator reduces with `% $modulus`
Raw(f, x, y) ==
    CASE f = "add" -> x + y
      [] f = "sub" -> x + modulus - y
      [] f = "mul" -> x * y
      [] f = "div" -> IF DivPanics(y) THEN 0 ELSE x * ModInv(ToBiguint(y))
      [] f = "neg" -> modulus - x

AddOutcomes(x, y) == {Ok(Add(x, y))}

\* sub without the `+ $modulus` that keeps the intermediate from going negative
SubOutcomesNoBias(x, y) ==
    IF x - y >= 0 THEN {Ok((x - y) % modulus)}
    ELSE {Panic("overflow"), Ok(WrapMod(x - y))}

SubOutcomes(x, y) ==
    IF x + modulus - y >= 0 THEN {Ok(Sub(x, y))}
    ELSE {Panic("overflow"), Ok(WrapMod(x + modulus - y))}

MulOutcomes(x, y) == {Ok(Mul(x, y))}

DivOutcomes(x, y) ==
    IF DivPanics(y) THEN {Panic("division")} ELSE {Ok(Div(x, y))}

NegOutcomes(x) ==
    IF modulus - x >= 0 THEN {Ok(Neg(x))}
    ELSE {Panic("overflow"), Ok(WrapMod(modulus - x))}

(***************************************************************************)
(* curve_25519.rs: division multiplies by Scalar::invert(), which is the   *)
(* power other^(l - 2) and so maps zero to zero without failing. The       *)
(* modulus stands for the group order l; Scalar::from reduces.             *)
(***************************************************************************)
ScalarFrom(value) == value % modulus

ScalarInvert(y) == ModPow(y, modulus - 2, modulus)

Div25519Outcomes(x, y) == {Ok((x * ScalarInvert(y)) % modulus)}

(***************************************************************************)
(* FieldElement::legendre (default method).                                *)
(***************************************************************************)
\* legendre with the two outcomes of the exponentiation swapped
LegendreSwapped(x) ==
    IF x = Zero THEN Ok(0)
    ELSE LET l == ModPow(BigUintFromStr(Serialize(x)),
                         BigUintFromStr(Serialize(
                             Div(Neg(One), Add(One, One)))),
                         Prime)
         IN  IF l = Prime - 1 THEN Ok(1)
             ELSE IF l = 1 THEN Ok(-1)
             ELSE Panic("legendre")

Legendre(x) ==
    IF x = Zero THEN Ok(0)
    ELSE IF DivPanics(Add(One, One)) THEN Panic("division")
    ELSE LET neg_one  == Prime - 1
             e        == Div(Neg(One), Add(One, One))
             e_bigint == BigUintFromStr(Serialize(e))
             a        == BigUintFromStr(Serialize(x))
             l        == ModPow(a, e_bigint, Prime)
         IN  IF l = neg_one THEN Ok(-1)
             ELSE IF l = 1 THEN Ok(1)
             ELSE Panic("legendre")

(***************************************************************************)
(* FieldElement::sqrt (default method), in the pieces its control flow has.*)
(***************************************************************************)
\* the witness search stopping at a residue instead
IsResidueWitness(x) == Legendre(x).val = 1

\* one turn of the witness search: is the cursor a non-residue?
IsNonResidue(x) == Legendre(x).val = -1

\* the locals set up between the witness search and the halving loop
SqrtLocals(x, non_residue) ==
    [a     |-> BigUintFromStr(Serialize(x)),
     b     |-> BigUintFromStr(Serialize(non_residue)),
     m     |-> Div(Neg(One), Add(One, One)),
     apow  |-> Neg(One),
     bpow  |-> Zero,
     iters |-> 0]

\* while BigUint::from_str(&apow.serialize()).unwrap().is_even()
LoopCond(s) == BigUintFromStr(Serialize(s.apow)) % 2 = 0

\* the body of the halving loop without the correction of bpow
HalveBodyNoAdjust(s) ==
    LET two  == Add(One, One)
    IN  [s EXCEPT !.apow  = Div(s.apow, two),
                  !.bpow  = Div(s.bpow, two),
                  !.iters = @ + 1]

\* the body of the halving loop
HalveBody(s) ==
    LET two  == Add(One, One)
        apow == Div(s.apow, two)
        bpow == Div(s.bpow, two)
        a_   == ModPow(s.a, BigUintFromStr(Serialize(apow)), Prime)
        b_   == ModPow(s.b, BigUintFromStr(Serialize(bpow)), Prime)
    IN  [s EXCEPT !.apow  = apow,
                  !.bpow  = IF (a_ * b_) % Prime = Prime - 1
                            THEN Add(bpow, s.m) ELSE bpow,
                  !.iters = @ + 1]

\* the root the final exponentiation produces
SqrtRoot(s) ==
    LET two  == Add(One, One)
        apow == Div(Add(s.apow, One), two)
        bpow == Div(s.bpow, two)
        a_   == ModPow(s.a, BigUintFromStr(Serialize(apow)), Prime)
        b_   == ModPow(s.b, BigUintFromStr(Serialize(bpow)), Prime)
    IN  (a_ * b_) % Prime

\* sqrt without the choice: the root as the exponentiation produced it
AnyRoot(root) == FromBiguint(root)

\* the choice between root and other_root
SmallerRoot(root) ==
    LET other_root == Prime - root
    IN  IF root > other_root THEN FromBiguint(other_root)
        ELSE FromBiguint(root)

\* the code after the halving loop
SqrtTail(s) == SmallerRoot(SqrtRoot(s))

RECURSIVE FindNonResidue(_)
\* the witness search as a whole
FindNonResidue(x) ==
    IF Legendre(x).panic THEN Legendre(x)
    ELSE IF IsNonResidue(x) THEN Ok(x)
    ELSE FindNonResidue(Add(x, One))

RECURSIVE HalveLoop(_)
\* the halving loop as a whole
HalveLoop(s) == IF LoopCond(s) THEN HalveLoop(HalveBody(s)) ELSE s

\* sqrt without the legendre precondition check
SqrtGuardUnchecked(x) == IF x = Zero THEN "zero" ELSE "search"

\* the precondition checks at the head of sqrt
SqrtGuard(x) ==
    IF x = Zero THEN "zero"
    ELSE IF Legendre(x).panic THEN "legendre"
    ELSE IF Legendre(x).val # 1 THEN "no_root"
    ELSE "search"

\* sqrt as one call, as quadratic_residues_at uses it
Sqrt(x) ==
    IF SqrtGuard(x) = "zero" THEN Ok(Zero)
    ELSE IF SqrtGuard(x) # "search" THEN Panic(SqrtGuard(x))
    ELSE LET w == FindNonResidue(Add(One, One))
         IN  IF w.panic THEN w
             ELSE SqrtTail(HalveLoop(SqrtLocals(x, w.val)))

(***************************************************************************)
(* foi_slow.rs: FoiFieldElement's byte conversions (the payload is a u128  *)
(* as in the custom ring; its decimal conversions are the same code).      *)
(***************************************************************************)
BYTES_SIZE == 16

FoiToBytesLe(x) == LeBytes(x, U128Bytes)

FoiFromBytesLe(bytes) ==
    IF Len(bytes) > BYTES_SIZE THEN Panic("bytes")
    ELSE LET sized_bytes == [i \in 1..BYTES_SIZE |->
                                IF i <= Len(bytes) THEN bytes[i] ELSE 0]
         IN  Ok(BytesLeToNat(sized_bytes))

(***************************************************************************)
(* quadratic_residues_at: one turn of its while loop on candidate x.       *)
(* The result is what the turn does: skip, push a triple, or panic.        *)
(***************************************************************************)
ScanBody(x) ==
    LET element == FromUsize(x)
        l       == Legendre(element)
    IN  IF l.panic THEN [act |-> "panic", why |-> l.why]
        ELSE IF l.val = -1 THEN [act |-> "skip"]
        ELSE IF l.val = 1 THEN
            LET r == Sqrt(element)
            IN  IF r.panic THEN [act |-> "panic", why |-> r.why]
                ELSE LET low_root  == r.val
                         high_root == Neg(low_root)
                     IN  IF element # Mul(low_root, low_root)
                         THEN [act |-> "panic", why |-> "assert_low"]
                         ELSE IF element # Mul(high_root, high_root)
                         THEN [act |-> "panic", why |-> "assert_high"]
                         ELSE IF Neg(element) # Mul(low_root, high_root)
                         THEN [act |-> "panic", why |-> "assert_neg"]
                         ELSE [act |-> "push",
                               triple |-> <<element, low_root, high_root>>]
        ELSE [act |-> "skip"]

(***************************************************************************)
(* lower60_string.  Payloads of 60 bits and more do not fit the model's    *)
(* integers, so here an element is the 16 little-endian bytes of its u128  *)
(* payload (to_bytes_le), a BigUint is a little-endian byte sequence, and  *)
(* a String is the sequence of its ASCII codes.                            *)
(***************************************************************************)
POW == 60

\* "_L60"
L60Suffix == <<95, 76, 54, 48>>

RECURSIVE BytesDivMod(_, _)
\* quotient and remainder of a little-endian byte sequence by a small d
BytesDivMod(bs, d) ==
    IF bs = <<>> THEN [q |-> <<>>, r |-> 0]
    ELSE LET hi == BytesDivMod(Tail(bs), d)
             cur == hi.r * 256 + bs[1]
         IN  [q |-> <<cur \div d>> \o hi.q, r |-> cur % d]

BytesIsZero(bs) == \A i \in 1..Len(bs) : bs[i] = 0

RECURSIVE BytesToDecimal(_)
\* u128::to_string / BigUint's Display: decimal, no leading zero, "0" for 0
BytesToDecimal(bs) ==
    LET dm == BytesDivMod(bs, 10)
    IN  IF BytesIsZero(dm.q) THEN <<48 + dm.r>>
        ELSE Append(BytesToDecimal(dm.q), 48 + dm.r)

RECURSIVE BytesMulAdd(_, _, _)
\* bs * m + c on a little-endian byte sequence of fixed width
BytesMulAdd(bs, m, c) ==
    IF bs = <<>> THEN <<>>
    ELSE LET cur == bs[1] * m + c
         IN  <<cur % 256>> \o BytesMulAdd(Tail(bs), m, cur \div 256)

RECURSIVE DecimalToBytes(_)
\* BigUint::from_str of a decimal string, as 16 little-endian bytes
DecimalToBytes(s) ==
    IF s = <<>> THEN [i \in 1..U128Bytes |-> 0]
    ELSE BytesMulAdd(DecimalToBytes(SubSeq(s, 1, Len(s) - 1)), 10,
                     s[Len(s)] - 48)

\* self.to_biguint() % two_pow: the bits below bit k are kept
BytesModPow2(bs, k) ==
    [i \in 1..Len(bs) |->
        IF 8 * i <= k THEN bs[i]
        ELSE IF 8 * (i - 1) < k THEN bs[i] % (2 ^ (k - 8 * (i - 1)))
        ELSE 0]

\* lower60_string with the plain comparison of the two lengths
Lower60StringNoMargin(x) ==
    LET plain_str == BytesToDecimal(x)
        l60_str == BytesToDecimal(BytesModPow2(x, POW)) \o L60Suffix
    IN  [plain |-> plain_str, l60 |-> l60_str,
         out |-> IF Len(l60_str) < Len(plain_str) THEN l60_str
                 ELSE plain_str]

\* FieldElement::lower60_string, with the two strings it chooses between
Lower60String(x) ==
    LET plain_str == BytesToDecimal(x)
        l60_str == BytesToDecimal(BytesModPow2(x, POW)) \o L60Suffix
    IN  [plain |-> plain_str, l60 |-> l60_str,
         out |-> IF Len(l60_str) + 3 < Len(plain_str) THEN l60_str
                 ELSE plain_str]

\* the payload a + 2^24 * b + 2^56 * c + 2^64 * d, as to_bytes_le gives it
WidePayload(a, b, c, d) ==
    LeBytes(a, 3) \o LeBytes(b, 4) \o <<c>> \o LeBytes(d, 8)

(***************************************************************************)
(* The state machine: one call per behaviour, chosen in the first step.    *)
(***************************************************************************)
NoLocals == [a |-> 0, b |-> 0, m |-> 0, apow |-> 0, bpow |-> 0, iters |-> 0]

NoOp == [backend |-> "", f |-> "", x |-> 0, y |-> 0, raw |-> 0,
         res |-> Ok(0)]

NoTrip == [backend |-> "", ser |-> <<>>, de |-> 0, bytes |-> <<>>,
           back |-> Ok(0)]

NoShown == [x |-> <<>>, plain |-> <<>>, l60 |-> <<>>, out |-> <<>>]

NoLog == [e |-> 0, b |-> 0, x |-> 0, i |-> 0]

\* static TRANSCRIPT: RwLock<..> = RwLock::new(vec![])
NoLock == [writer |-> 0, readers |-> {}]

Init ==
    /\ modulus \in Moduli
    /\ pc = "idle"
    /\ op = ""
    /\ arg = 0
    /\ sq_of = -1
    /\ n = 0
    /\ st = NoLocals
    /\ start = 0
    /\ count = 0
    /\ cand = 0
    /\ out = <<>>
    /\ classified = <<>>
    /\ ret = 0
    /\ why = ""
    /\ trip = NoTrip
    /\ acc = 0
    /\ last = NoOp
    /\ shown = NoShown
    /\ logf = NoLog
    /\ transcript = <<>>
    /\ lock = NoLock
    /\ stack = [t \in Threads |-> <<>>]
    /\ calls = 0
    /\ returned = {}
    /\ runner = 0

\* x.legendre() on the element From<u64> makes of x
CallLegendre(x) ==
    /\ pc = "idle"
    /\ op' = "legendre"
    /\ arg' = FromU64(x)
    /\ IF Legendre(FromU64(x)).panic
       THEN pc' = "panic" /\ why' = Legendre(FromU64(x)).why /\ ret' = ret
       ELSE pc' = "done" /\ ret' = Legendre(FromU64(x)).val /\ why' = why
    /\ UNCHANGED <<ledgerVars, textVars, calcVars, modulus, sq_of, n, st, start, count, cand, out,
                   classified, trip>>

\* the head of sqrt (lib.rs 239-246) on element x
SqrtEnter(x) ==
    /\ arg' = x
    /\ CASE SqrtGuard(x) = "zero" ->
              pc' = "done" /\ ret' = Zero /\ why' = why /\ n' = n
         [] SqrtGuard(x) = "search" ->
              pc' = "sqrt_search" /\ n' = Add(One, One)
              /\ UNCHANGED <<ret, why>>
         [] OTHER ->
              pc' = "panic" /\ why' = SqrtGuard(x) /\ ret' = ret /\ n' = n
    /\ UNCHANGED <<ledgerVars, textVars, calcVars, modulus, st, start, count, cand, out, classified, trip>>

\* x.sqrt() on the element From<u64> makes of x
CallSqrt(x) ==
    /\ pc = "idle"
    /\ op' = "sqrt"
    /\ sq_of' = sq_of
    /\ SqrtEnter(FromU64(x))

\* the body of test_sqrt's loop: square = x * x; square.sqrt()
TestSqrt(x) ==
    /\ pc = "idle"
    /\ op' = "test_sqrt"
    /\ sq_of' = FromU64(x)
    /\ SqrtEnter(Mul(FromU64(x), FromU64(x)))

\* one turn of the witness search (lib.rs 248-254)
SqrtSearch ==
    /\ pc = "sqrt_search"
    /\ IF Legendre(n).panic
       THEN pc' = "panic" /\ why' = Legendre(n).why /\ UNCHANGED <<n, st>>
       ELSE IF IsNonResidue(n)
       THEN pc' = "sqrt_loop" /\ st' = SqrtLocals(arg, n)
            /\ UNCHANGED <<n, why>>
       ELSE n' = Add(n, One) /\ UNCHANGED <<pc, st, why>>
    /\ UNCHANGED <<ledgerVars, textVars, calcVars, modulus, op, arg, sq_of, start, count, cand, out,
                   classified, ret, trip>>

\* one turn of the halving loop (lib.rs 262-276)
SqrtHalve ==
    /\ pc = "sqrt_loop"
    /\ LoopCond(st)
    /\ st' = HalveBody(st)
    /\ UNCHANGED <<ledgerVars, textVars, calcVars, modulus, pc, op, arg, sq_of, n, start, count, cand, out,
                   classified, ret, why, trip>>

\* the code after the halving loop (lib.rs 277-293)
SqrtFinish ==
    /\ pc = "sqrt_loop"
    /\ ~LoopCond(st)
    /\ IF SqrtTail(st).panic
       THEN pc' = "panic" /\ why' = SqrtTail(st).why /\ ret' = ret
       ELSE pc' = "done" /\ ret' = SqrtTail(st).val /\ why' = why
    /\ UNCHANGED <<ledgerVars, textVars, calcVars, modulus, op, arg, sq_of, n, st, start, count, cand, out,
                   classified, trip>>

\* quadratic_residues_at(s, c): the locals before the loop
CallScan(s, c) ==
    /\ pc = "idle"
    /\ op' = "scan"
    /\ pc' = "scan"
    /\ start' = s
    /\ count' = c
    /\ cand' = s
    /\ out' = <<>>
    /\ classified' = <<>>
    /\ UNCHANGED <<ledgerVars, textVars, calcVars, modulus, arg, sq_of, n, st, ret, why, trip>>

\* the scan advancing by two after a push
ScanIterStride ==
    /\ pc = "scan"
    /\ Len(out) < count
    /\ classified' = Append(classified, cand)
    /\ CASE ScanBody(cand).act = "panic" ->
              pc' = "panic" /\ why' = ScanBody(cand).why
              /\ UNCHANGED <<cand, out>>
         [] ScanBody(cand).act = "push" ->
              out' = Append(out, ScanBody(cand).triple)
              /\ cand' = cand + 2 /\ UNCHANGED <<pc, why>>
         [] OTHER ->
              cand' = cand + 1 /\ UNCHANGED <<pc, why, out>>
    /\ UNCHANGED <<ledgerVars, textVars, calcVars, modulus, op, arg, sq_of, n, st, start, count, ret, trip>>

\* one turn of the scan's while loop
ScanIter ==
    /\ pc = "scan"
    /\ Len(out) < count
    /\ classified' = Append(classified, cand)
    /\ CASE ScanBody(cand).act = "panic" ->
              pc' = "panic" /\ why' = ScanBody(cand).why
              /\ UNCHANGED <<cand, out>>
         [] ScanBody(cand).act = "push" ->
              out' = Append(out, ScanBody(cand).triple)
              /\ cand' = cand + 1 /\ UNCHANGED <<pc, why>>
         [] OTHER ->
              cand' = cand + 1 /\ UNCHANGED <<pc, why, out>>
    /\ UNCHANGED <<ledgerVars, textVars, calcVars, modulus, op, arg, sq_of, n, st, start, count, ret, trip>>

\* the scan's loop exit: return out
ScanReturn ==
    /\ pc = "scan"
    /\ ~(Len(out) < count)
    /\ pc' = "done"
    /\ UNCHANGED <<ledgerVars, textVars, calcVars, modulus, op, arg, sq_of, n, st, start, count, cand, out,
                   classified, ret, why, trip>>

\* deserialize(serialize(x)) and from_bytes_le(to_bytes_le(x)) on a backend
CallRoundTrip(x, backend) ==
    /\ pc = "idle"
    /\ op' = "round_trip"
    /\ arg' = x
    /\ trip' = [backend |-> backend,
                ser     |-> Serialize(x),
                de      |-> Deserialize(Serialize(x)),
                bytes   |-> IF backend = "custom" THEN ToBytesLe(x)
                            ELSE FoiToBytesLe(x),
                back    |-> IF backend = "custom"
                            THEN FromBytesLe(ToBytesLe(x))
                            ELSE FoiFromBytesLe(FoiToBytesLe(x))]
    /\ pc' = "done"
    /\ UNCHANGED <<ledgerVars, textVars, calcVars, modulus, sq_of, n, st, start, count, cand, out,
                   classified, ret, why>>

\* T::from_biguint(&v) on the custom ring
CallFromBiguint(v) ==
    /\ pc = "idle"
    /\ op' = "from_biguint"
    /\ arg' = v
    /\ trip' = [NoTrip EXCEPT !.backend = "custom",
                              !.bytes = BigUintToBytesLe(v)]
    /\ IF FromBiguint(v).panic
       THEN pc' = "panic" /\ why' = FromBiguint(v).why /\ ret' = ret
       ELSE pc' = "done" /\ ret' = FromBiguint(v).val /\ why' = why
    /\ UNCHANGED <<ledgerVars, textVars, calcVars, modulus, sq_of, n, st, start, count, cand, out,
                   classified>>

(***************************************************************************)
(* Arithmetic: constructions and operators applied one after another to an *)
(* element register.                                                       *)
(***************************************************************************)
coreVars == <<arg, sq_of, n, st, start, count, cand, out, classified, ret,
              trip>>

\* T::from(v), T::deserialize(&v.to_string()) or T::from_bytes_le(bytes of v);
\* a later construction replaces the register, which is starting over
Construct(kind, v) ==
    /\ pc = "idle"
    /\ op' = "calc"
    /\ pc' = "calc"
    /\ acc' = CASE kind = "from_u64" -> FromU64(v)
                [] kind = "deserialize" -> Deserialize(NatToDigits(v))
                [] kind = "from_bytes_le" -> FromBytesLe(BigUintToBytesLe(v)).val
    /\ last' = [NoOp EXCEPT !.backend = "custom", !.f = kind, !.x = v]
    /\ UNCHANGED <<ledgerVars, textVars, modulus, why, coreVars>>

\* acc = acc <f> T::from(v), with one of the outcomes the operator can have
ApplyOp(f, y, outcomes) ==
    /\ pc = "calc"
    /\ \E r \in outcomes :
          /\ last' = [backend |-> "custom", f |-> f, x |-> acc, y |-> y,
                      raw |-> Raw(f, acc, y), res |-> r]
          /\ IF r.panic
             THEN pc' = "panic" /\ why' = r.why /\ acc' = acc
             ELSE pc' = pc /\ why' = why /\ acc' = r.val
    /\ UNCHANGED <<ledgerVars, textVars, modulus, op, coreVars>>

CalcAdd(v) == ApplyOp("add", FromU64(v), AddOutcomes(acc, FromU64(v)))

CalcSub(v) == ApplyOp("sub", FromU64(v), SubOutcomes(acc, FromU64(v)))

CalcMul(v) == ApplyOp("mul", FromU64(v), MulOutcomes(acc, FromU64(v)))

CalcDiv(v) == ApplyOp("div", FromU64(v), DivOutcomes(acc, FromU64(v)))

CalcNeg == ApplyOp("neg", Zero, NegOutcomes(acc))

\* Curve25519FieldElement::from(v) / Curve25519FieldElement::from(w)
CallDiv25519(v, w) ==
    /\ pc = "idle"
    /\ op' = "calc"
    /\ pc' = "done"
    /\ \E r \in Div25519Outcomes(ScalarFrom(v), ScalarFrom(w)) :
          /\ last' = [backend |-> "curve25519", f |-> "div",
                      x |-> ScalarFrom(v), y |-> ScalarFrom(w), raw |-> 0,
                      res |-> r]
          /\ acc' = r.val
    /\ UNCHANGED <<ledgerVars, textVars, modulus, why, coreVars>>

NextCalc ==
    \/ \E kind \in {"from_u64", "deserialize", "from_bytes_le"},
          v \in 0..MaxOperand : Construct(kind, v)
    \/ \E v \in 0..MaxOperand : CalcAdd(v)
    \/ \E v \in 0..MaxOperand : CalcSub(v)
    \/ \E v \in 0..MaxOperand : CalcMul(v)
    \/ \E v \in 0..MaxOperand : CalcDiv(v)
    \/ CalcNeg
    \/ \E v \in 0..MaxOperand, w \in 0..MaxOperand : CallDiv25519(v, w)

SpecCalc == Init /\ [][NextCalc]_vars

(***************************************************************************)
(* lower60_string and log_floor.                                           *)
(***************************************************************************)
calcAndCore == <<calcVars, modulus, arg, sq_of, n, st, start, count, cand,
                 out, classified, trip>>

\* x.lower60_string() on the element with payload bytes x
CallLower60(x) ==
    /\ pc = "idle"
    /\ op' = "lower60_string"
    /\ pc' = "done"
    /\ shown' = [x |-> x] @@ Lower60String(x)
    /\ UNCHANGED <<ledgerVars, logf, ret, why, calcAndCore>>

\* e.log_floor(b) up to the loop: lib.rs 195-203
CallLogFloor(e, b) ==
    /\ pc = "idle"
    /\ op' = "log_floor"
    /\ IF ToBiguint(b) > ToBiguint(e)
       THEN pc' = "done" /\ ret' = 0
            /\ logf' = [NoLog EXCEPT !.e = ToBiguint(e), !.b = ToBiguint(b)]
       ELSE IF b = e
       THEN pc' = "done" /\ ret' = 1
            /\ logf' = [NoLog EXCEPT !.e = ToBiguint(e), !.b = ToBiguint(b)]
       ELSE /\ pc' = "log"
            /\ ret' = ret
            /\ logf' = [e |-> ToBiguint(e), b |-> ToBiguint(b),
                        x |-> ToBiguint(b), i |-> 1]
    /\ UNCHANGED <<ledgerVars, shown, why, calcAndCore>>

\* one turn of `while x < e`, or the unreachable!() behind the loop
LogFloorStep ==
    /\ pc = "log"
    /\ logf.i < MaxSteps
    /\ IF logf.x < logf.e
       THEN IF logf.x * logf.b >= logf.e
            THEN /\ pc' = "done" /\ ret' = logf.i /\ why' = why
                 /\ logf' = [logf EXCEPT !.x = logf.x * logf.b]
            ELSE /\ logf' = [logf EXCEPT !.x = logf.x * logf.b,
                                         !.i = logf.i + 1]
                 /\ UNCHANGED <<pc, ret, why>>
       ELSE pc' = "panic" /\ why' = "unreachable" /\ UNCHANGED <<logf, ret>>
    /\ UNCHANGED <<ledgerVars, shown, op, calcAndCore>>

NextText ==
    \/ \E a \in LowWords, b \in MidWords, c \in TopBytes, d \in HighWords :
           CallLower60(WidePayload(a, b, c, d))
    \/ \E e \in 0..MaxElem, b \in 0..MaxElem : CallLogFloor(e, b)
    \/ LogFloorStep

SpecText == Init /\ [][NextText]_vars

(***************************************************************************)
(* timing.rs: stat_exec and summary_exec, called from several threads and  *)
(* from inside closures handed to stat_exec.  A call in progress is a      *)
(* frame on its thread's stack.                                            *)
(***************************************************************************)
NoFrame == [fn |-> "", at |-> "", name |-> 0, elapsed |-> 0, seen |-> <<>>,
            idx |-> 0, listed |-> <<>>]

Busy(t) == stack[t] # <<>>

Top(t) == stack[t][Len(stack[t])]

\* thread t is executing the closure of its innermost stat_exec
InClosure(t) == Busy(t) /\ Top(t).fn = "stat_exec" /\ Top(t).at = "closure"

\* t can begin a call: from its top level or from inside a closure
CanCall(t) ==
    /\ runner = 0
    /\ Len(stack[t]) < MaxDepth
    /\ ~Busy(t) \/ InClosure(t)

PushFrame(t, fr) == [stack EXCEPT ![t] = Append(@, fr)]

PopFrame(t) == [stack EXCEPT ![t] = SubSeq(@, 1, Len(@) - 1)]

SetTop(t, fr) == [stack EXCEPT ![t] = Append(SubSeq(@, 1, Len(@) - 1), fr)]

\* a push that does not wait for anybody
CanWriteUnlocked == TRUE

\* RwLock::write returns once there is neither a writer nor a reader
CanWrite == lock.writer = 0 /\ lock.readers = {}

\* RwLock::read returns once there is no writer
CanRead == lock.writer = 0

coreAndCalc == <<modulus, pc, op, why, coreVars, calcVars, textVars>>

\* stat_exec(f): let now = Instant::now(); f() begins
StatExec(t) ==
    /\ CanCall(t)
    /\ calls < MaxCalls
    /\ calls' = calls + 1
    /\ stack' = PushFrame(t, [NoFrame EXCEPT !.fn = "stat_exec",
                                             !.at = "closure",
                                             !.name = calls + 1])
    /\ UNCHANGED <<transcript, lock, returned, runner, coreAndCalc>>

\* let name = f(); let elapsed = now.elapsed(); println!(..)
ClosureReturn(t, d) ==
    /\ runner = 0
    /\ InClosure(t)
    /\ stack' = SetTop(t, [Top(t) EXCEPT !.at = "lock", !.elapsed = d])
    /\ UNCHANGED <<transcript, lock, calls, returned, runner,
                   coreAndCalc>>

\* let mut transcript = TRANSCRIPT.write().unwrap()
AcquireWrite(t) ==
    /\ runner = 0
    /\ Busy(t) /\ Top(t).fn = "stat_exec" /\ Top(t).at = "lock"
    /\ CanWrite
    /\ lock' = [lock EXCEPT !.writer = t]
    /\ stack' = SetTop(t, [Top(t) EXCEPT !.at = "push", !.seen = transcript])
    /\ UNCHANGED <<transcript, calls, returned, runner, coreAndCalc>>

\* transcript.push((name.to_string(), elapsed)); the guard is dropped
StatExecPush(t) ==
    /\ runner = 0
    /\ Busy(t) /\ Top(t).fn = "stat_exec" /\ Top(t).at = "push"
    /\ transcript' = Append(Top(t).seen,
                            [name |-> Top(t).name, elapsed |-> Top(t).elapsed])
    /\ lock' = [lock EXCEPT !.writer = 0]
    /\ returned' = returned \cup {Top(t).name}
    /\ stack' = PopFrame(t)
    /\ UNCHANGED <<calls, runner, coreAndCalc>>

\* summary_exec() is called
SummaryExec(t) ==
    /\ CanCall(t)
    /\ stack' = PushFrame(t, [NoFrame EXCEPT !.fn = "summary_exec",
                                             !.at = "lock", !.idx = 1])
    /\ UNCHANGED <<transcript, lock, calls, returned, runner,
                   coreAndCalc>>

\* let transcript = TRANSCRIPT.read().unwrap()
AcquireRead(t) ==
    /\ runner = 0
    /\ Busy(t) /\ Top(t).fn = "summary_exec" /\ Top(t).at = "lock"
    /\ CanRead
    /\ lock' = [lock EXCEPT !.readers = @ \cup {t}]
    /\ stack' = SetTop(t, [Top(t) EXCEPT !.at = "list"])
    /\ UNCHANGED <<transcript, calls, returned, runner, coreAndCalc>>

\* one turn of `for (name, elapsed) in &*transcript`
SummaryPrint(t) ==
    /\ runner = 0
    /\ Busy(t) /\ Top(t).fn = "summary_exec" /\ Top(t).at = "list"
    /\ Top(t).idx <= Len(transcript)
    /\ stack' = SetTop(t, [Top(t) EXCEPT
                               !.listed = Append(@, transcript[Top(t).idx]),
                               !.idx = @ + 1])
    /\ UNCHANGED <<transcript, lock, calls, returned, runner,
                   coreAndCalc>>

\* the loop is over: summary_exec returns and the read guard is dropped
SummaryReturn(t) ==
    /\ runner = 0
    /\ Busy(t) /\ Top(t).fn = "summary_exec" /\ Top(t).at = "list"
    /\ Top(t).idx > Len(transcript)
    /\ lock' = [lock EXCEPT !.readers = @ \ {t}]
    /\ stack' = PopFrame(t)
    /\ UNCHANGED <<transcript, calls, returned, runner, coreAndCalc>>

\* the closure calls legendre, sqrt or quadratic_residues_at, as the
\* closures of examples/1000_residues.rs do; the model has one core call
\* at a time, made by an outermost closure while the other threads rest
ClosureCallsCore(t) ==
    /\ runner = 0
    /\ pc = "idle"
    /\ InClosure(t)
    /\ Len(stack[t]) = 1
    /\ \A u \in Threads \ {t} : ~Busy(u)
    /\ runner' = t
    /\ UNCHANGED <<transcript, lock, stack, calls, returned, coreAndCalc>>

\* the core call is over and its locals are gone
CoreReset ==
    /\ pc' = "idle" /\ op' = "" /\ arg' = 0 /\ sq_of' = -1 /\ n' = 0
    /\ st' = NoLocals /\ start' = 0 /\ count' = 0 /\ cand' = 0
    /\ out' = <<>> /\ classified' = <<>> /\ ret' = 0 /\ why' = ""
    /\ UNCHANGED <<modulus, trip, calcVars, textVars>>

\* the core call returned, and so does the closure
CoreReturn(t, d) ==
    /\ runner = t
    /\ pc = "done"
    /\ runner' = 0
    /\ stack' = SetTop(t, [Top(t) EXCEPT !.at = "lock", !.elapsed = d])
    /\ CoreReset
    /\ UNCHANGED <<transcript, lock, calls, returned>>

\* the core call panicked: the thread unwinds, its stat_exec never returns
CorePanic(t) ==
    /\ runner = t
    /\ pc = "panic"
    /\ runner' = 0
    /\ stack' = [stack EXCEPT ![t] = <<>>]
    /\ CoreReset
    /\ UNCHANGED <<transcript, lock, calls, returned>>

\* the steps of the core call a closure makes
CoreStep ==
    /\ runner # 0
    /\ \/ \E x \in ClosureElems : CallLegendre(x)
       \/ \E x \in ClosureElems : CallSqrt(x)
       \/ SqrtSearch
       \/ SqrtHalve
       \/ SqrtFinish
       \/ \E sc \in ClosureScans : CallScan(sc[1], sc[2])
       \/ ScanIter
       \/ ScanReturn

NextLedger ==
    \/ \E t \in Threads : StatExec(t)
    \/ \E t \in Threads, d \in Durations : ClosureReturn(t, d)
    \/ \E t \in Threads : AcquireWrite(t)
    \/ \E t \in Threads : StatExecPush(t)
    \/ \E t \in Threads : SummaryExec(t)
    \/ \E t \in Threads : AcquireRead(t)
    \/ \E t \in Threads : SummaryPrint(t)
    \/ \E t \in Threads : SummaryReturn(t)
    \/ \E t \in Threads : ClosureCallsCore(t)
    \/ \E t \in Threads, d \in Durations : CoreReturn(t, d)
    \/ \E t \in Threads : CorePanic(t)
    \/ CoreStep

\* the ledger does not depend on the ring: the closures use the tests' F13
InitLedger == Init /\ modulus = 13

SpecLedger == InitLedger /\ [][NextLedger]_vars

Next ==
    \/ \E x \in 0..MaxElem : CallLegendre(x)
    \/ \E x \in 0..MaxElem : CallSqrt(x)
    \/ \E x \in 0..MaxElem : TestSqrt(x)
    \/ SqrtSearch
    \/ SqrtHalve
    \/ SqrtFinish
    \/ \E s \in 0..MaxStart, c \in 0..MaxCount : CallScan(s, c)
    \/ ScanIter
    \/ ScanReturn
    \/ \E x \in TripValues, backend \in {"custom", "foi_slow"} :
           CallRoundTrip(x, backend)
    \/ \E v \in TripValues : CallFromBiguint(v)

Spec == Init /\ [][Next]_vars

(***************************************************************************)
(* Reference notions the claims are stated against.                        *)
(***************************************************************************)
IsSqrtCall == op \in {"sqrt", "test_sqrt"}

\* c is a nonzero square modulo the modulus
IsQR(c) ==
    /\ c % modulus # 0
    /\ \E y \in 1..(modulus - 1) : (y * y) % modulus = c % modulus

\* the Legendre symbol by its definition
RefLegendre(x) == IF x % modulus = 0 THEN 0 ELSE IF IsQR(x) THEN 1 ELSE -1

AssertFailures == {"assert_low", "assert_high", "assert_neg"}

(***************************************************************************)
(* C1: whenever legendre(x) = 1, sqrt(x) returns (does not panic) and the  *)
(* value r it returns satisfies r * r == x.                                *)
(* Violated: From<u64> does not reduce, so x = 14 in the modulus-13 ring   *)
(* has legendre 1, sqrt 1, and 1 * 1 = 1 is not the element 14.            *)
(***************************************************************************)
C1_SqrtSquaresBack ==
    (IsSqrtCall /\ Legendre(arg) = Ok(1))
        => /\ pc # "panic"
           /\ pc = "done" => Mul(ret, ret) = arg

(***************************************************************************)
(* C2: for every x with legendre(x) = 1 the value sqrt returns is the      *)
(* smaller of the root the exponentiation produced and its negation: its   *)
(* integer view is at most (p - 1) / 2.                                    *)
(***************************************************************************)
C2_SqrtReturnsSmallerRoot ==
    (IsSqrtCall /\ pc = "done" /\ Legendre(arg) = Ok(1))
        => /\ ToBiguint(ret) <= (modulus - 1) \div 2
           /\ ToBiguint(ret) \in {SqrtRoot(st), modulus - SqrtRoot(st)}

\* a sqrt that returned although the exponentiation produced the larger root
C2_Witness ==
    /\ op = "sqrt" /\ pc = "done" /\ Legendre(arg) = Ok(1)
    /\ SqrtRoot(st) > (modulus - 1) \div 2
    /\ ret = modulus - SqrtRoot(st)

(***************************************************************************)
(* C3: sqrt returns a value only when its input is zero or has legendre 1; *)
(* sqrt(zero()) returns zero(); on legendre -1 it panics at the            *)
(* precondition check, before the witness search has started; on legendre  *)
(* 1 it never panics.                                                      *)
(***************************************************************************)
C3_SqrtReturnsIffZeroOrResidue ==
    IsSqrtCall =>
        /\ pc = "done" => (arg = Zero \/ Legendre(arg) = Ok(1))
        /\ arg = Zero => (pc = "done" /\ ret = Zero)
        /\ Legendre(arg) = Ok(-1)
               => (pc = "panic" /\ why = "no_root" /\ n = 0 /\ st = NoLocals)
        /\ Legendre(arg) = Ok(1) => pc # "panic"

\* sqrt of the non-residue 2 modulo 13 has panicked
C3_Witness ==
    /\ op = "sqrt" /\ modulus = 13 /\ arg = 2
    /\ pc = "panic" /\ why = "no_root"

(***************************************************************************)
(* C4: for every nonzero x, legendre(x * x) = 1.                           *)
(* Violated: the unreduced element 13 of the modulus-13 ring is not        *)
(* zero(), and its square is zero(), whose legendre is 0.                  *)
(***************************************************************************)
C4_LegendreOfSquare ==
    (op = "test_sqrt" /\ sq_of # Zero) => Legendre(arg) = Ok(1)

(***************************************************************************)
(* C5: for every x with integer view in [0, p), legendre returns without   *)
(* panicking and equals the symbol's definition: 0 for zero, 1 for a       *)
(* nonzero square, -1 otherwise; modulo 13 the elements with result 1 are  *)
(* exactly 1, 3, 4, 9, 10, 12 and legendre(6) = -1.                        *)
(***************************************************************************)
C5_LegendreClassifies ==
    (op = "legendre" /\ ToBiguint(arg) < modulus)
        => /\ pc = "done"
           /\ ret = RefLegendre(arg)
           /\ ret = 0 <=> arg = Zero
           /\ modulus = 13 => (ret = 1 <=> arg \in {1, 3, 4, 9, 10, 12})
           /\ (modulus = 13 /\ arg = 6) => ret = -1

\* legendre(6) modulo 13 has returned -1
C5_Witness ==
    /\ op = "legendre" /\ modulus = 13 /\ arg = 6
    /\ pc = "done" /\ ret = -1

(***************************************************************************)
(* C6: for every start and count the scan does not panic and returns       *)
(* exactly count triples, also when candidates at or above the modulus     *)
(* have to be scanned; with count 0 it classifies no candidate.            *)
(* Violated: modulo 13 from start 1 with count 7 the candidate 13 is not   *)
(* zero() and makes legendre panic.                                        *)
(***************************************************************************)
C6_ScanReturnsCount ==
    op = "scan" =>
        /\ pc # "panic"
        /\ pc = "done" => Len(out) = count
        /\ count = 0 => classified = <<>>

(***************************************************************************)
(* C7: every triple the scan pushed satisfies value = low * low,           *)
(* value = high * high, -value = low * high, and none of the three         *)
(* assert_eq! checks fails for a candidate classified as a residue.        *)
(* Violated: modulo 13 the candidate 14 is classified as a residue, its    *)
(* root is 1 and 1 * 1 is the element 1, not the element 14.               *)
(***************************************************************************)
C7_ScanAssertsHold ==
    op = "scan" =>
        /\ \A i \in 1..Len(out) :
              /\ out[i][1] = Mul(out[i][2], out[i][2])
              /\ out[i][1] = Mul(out[i][3], out[i][3])
              /\ Neg(out[i][1]) = Mul(out[i][2], out[i][3])
              /\ out[i][3] = Neg(out[i][2])
        /\ why \notin AssertFailures

(***************************************************************************)
(* C8: the sequence a scan returns holds exactly the first count quadratic *)
(* residues among the candidates start, start + 1, ... in increasing       *)
(* order: every value is a residue not below start, the values increase    *)
(* strictly, and no residue between start and the last value is missing;   *)
(* modulo 13 from 1 with count 3 it is [(1,1,12), (3,4,9), (4,2,11)].      *)
(***************************************************************************)
C8_ScanReturnsFirstResidues ==
    (op = "scan" /\ pc = "done") =>
        /\ Len(out) = count
        /\ \A i \in 1..Len(out) : out[i][1] >= start /\ IsQR(out[i][1])
        /\ \A i \in 1..(Len(out) - 1) : out[i][1] < out[i + 1][1]
        /\ \A c \in start..(cand - 1) :
              IsQR(c) => \E i \in 1..Len(out) : out[i][1] = c
        /\ Len(out) > 0 => cand = out[Len(out)][1] + 1
        /\ (modulus = 13 /\ start = 1 /\ count = 3)
               => out = << <<1, 1, 12>>, <<3, 4, 9>>, <<4, 2, 11>> >>

\* the worked example: modulo 13, the scan from 1 for 3 residues has returned
C8_Witness ==
    /\ op = "scan" /\ pc = "done"
    /\ modulus = 13 /\ start = 1 /\ count = 3 /\ Len(out) = 3

(***************************************************************************)
(* C9: deserialize(serialize(x)) = x and from_bytes_le(to_bytes_le(x)) = x *)
(* for every payload x, and from_bytes_le accepts the bytes to_bytes_le    *)
(* produced without panicking (custom ring and FoiFieldElement).           *)
(***************************************************************************)
C9_RoundTrip ==
    op = "round_trip" =>
        /\ trip.de = arg
        /\ ~trip.back.panic
        /\ trip.back.val = arg
        /\ Len(trip.bytes) = U128Bytes

\* a round trip of a payload of several digits and several nonzero bytes
C9_Witness ==
    /\ op = "round_trip" /\ pc = "done" /\ arg = 70000
    /\ Len(trip.ser) = 5 /\ trip.bytes[3] = 1 /\ trip.back.val = 70000

(***************************************************************************)
(* C10: from_biguint(v) is the element whose integer view is v mod p, for  *)
(* every v that fits the byte width, v >= p included.                      *)
(* Violated: the custom ring's from_bytes_le keeps the payload as it is,   *)
(* so from_biguint(14) modulo 13 has integer view 14, not 1.               *)
(***************************************************************************)
C10_FromBiguintReduces ==
    op = "from_biguint" =>
        /\ pc = "done"
        /\ ToBiguint(ret) = arg % modulus

(***************************************************************************)
(* C11: after any construction (from a u64, a decimal string, bytes) and   *)
(* any operators, the element has an integer view in [0, p); in particular *)
(* from(u64) of a value >= p is the element of the reduced value.          *)
(* Violated: the custom ring's From<u64>, deserialize and from_bytes_le    *)
(* store the value as it is, so from(13) modulo 13 has integer view 13.    *)
(***************************************************************************)
C11_ElementsStayReduced ==
    op = "calc" =>
        /\ ToBiguint(acc) < modulus
        /\ last.f = "from_u64" => acc = FromU64(last.x % modulus)

(***************************************************************************)
(* C12: a / b panics when b == zero() and returns a value when             *)
(* b != zero(); add, sub, mul and neg never fail.                          *)
(* Violated: Curve25519FieldElement's div multiplies by Scalar::invert()   *)
(* and returns zero for a zero divisor; and in the custom ring the         *)
(* unreduced divisor 13 modulo 13 is not zero() and makes div panic.       *)
(***************************************************************************)
C12_DivFailsIffZeroDivisor ==
    op = "calc" =>
        /\ last.f = "div" => (last.res.panic <=> last.y = Zero)
        /\ last.f \in {"add", "sub", "mul", "neg"} => ~last.res.panic

(***************************************************************************)
(* C13: for x and y in [0, p) the custom ring's operators are integer      *)
(* arithmetic modulo p, (x / y) * y = x for y # 0, and the u128            *)
(* intermediate each of them reduces lies in [0, p * p), which is below    *)
(* 2^128 for every modulus below 2^64: nothing overflows or underflows.    *)
(***************************************************************************)
C13_OperatorsAgreeWithIntegers ==
    (/\ op = "calc" /\ last.backend = "custom"
     /\ last.f \in {"add", "sub", "mul", "div", "neg"}
     /\ last.x < modulus /\ last.y < modulus)
        => /\ 0 <= last.raw /\ last.raw < modulus * modulus
           /\ last.f = "add" => last.res = Ok((last.x + last.y) % modulus)
           /\ last.f = "mul" => last.res = Ok((last.x * last.y) % modulus)
           /\ last.f = "sub" => last.res = Ok((last.x - last.y) % modulus)
           /\ last.f = "neg" => last.res = Ok((0 - last.x) % modulus)
           /\ (last.f = "div" /\ last.y # 0)
                  => /\ ~last.res.panic
                     /\ (last.res.val * last.y) % modulus = last.x
                     /\ last.res.val < modulus

\* 3 - 7 modulo 13: a subtraction whose plain difference is negative
C13_Witness ==
    /\ op = "calc" /\ modulus = 13 /\ last.f = "sub"
    /\ last.x = 3 /\ last.y = 7 /\ last.res = Ok(9) /\ acc = 9

IsLow60Form(s, x) ==
    /\ Len(s) > Len(L60Suffix)
    /\ SubSeq(s, Len(s) - Len(L60Suffix) + 1, Len(s)) = L60Suffix
    /\ LET low == DecimalToBytes(SubSeq(s, 1, Len(s) - Len(L60Suffix)))
       IN  /\ \A i \in 1..7 : low[i] = x[i]
           /\ low[8] = x[8] % 16
           /\ \A i \in 9..U128Bytes : low[i] = 0

RECURSIVE FloorLog(_, _)
\* the largest k with b^k <= e, for e >= 1 and b >= 2
FloorLog(e, b) == IF e < b THEN 0 ELSE 1 + FloorLog(e \div b, b)

(***************************************************************************)
(* C15: for an element e >= 1 and a base b >= 2, e.log_floor(b) terminates *)
(* (the loop's x is b^i and stays below e), never reaches unreachable!(),  *)
(* and returns the largest k with b^k <= e.                                *)
(* Violated: 4.log_floor(2) returns 1 and 8.log_floor(2) returns 2; the    *)
(* loop returns i when b^(i+1) >= e, one too few when e is a power of b.   *)
(***************************************************************************)
C15_LogFloorIsFlooredLog ==
    (op = "log_floor" /\ logf.e >= 1 /\ logf.b >= 2) =>
        /\ pc # "panic"
        /\ pc = "log" => (logf.x = logf.b ^ logf.i /\ logf.x < logf.e)
        /\ pc = "done" => ret = FloorLog(logf.e, logf.b)

(***************************************************************************)
(* C16: for every element x, to_biguint(x) (the little-endian bytes read   *)
(* as an integer) equals the integer parsed from the decimal string        *)
(* serialize(x); so the operands legendre and sqrt parse from serialize    *)
(* are the integers prime() and from_biguint work with.                    *)
(***************************************************************************)
C16_BridgeAgreesWithDecimal ==
    /\ op \in {"legendre", "sqrt", "test_sqrt", "round_trip"}
           => ToBiguint(arg) = BigUintFromStr(Serialize(arg))
    /\ op = "round_trip"
           => BytesLeToNat(trip.bytes) = BigUintFromStr(trip.ser)
    /\ (IsSqrtCall /\ pc = "sqrt_loop")
           => /\ st.a = ToBiguint(arg)
              /\ st.b = ToBiguint(n)
              /\ BigUintFromStr(Serialize(st.apow)) = ToBiguint(st.apow)
              /\ BigUintFromStr(Serialize(st.bpow)) = ToBiguint(st.bpow)

\* a payload of several digits and several bytes
C16_Witness ==
    /\ op = "round_trip" /\ trip.backend = "custom" /\ arg = 70000
    /\ trip.ser = <<7, 0, 0, 0, 0>>
    /\ SubSeq(trip.bytes, 1, 3) = <<112, 17, 1>>

\* the smallest n >= 2 with Legendre symbol -1
LeastNonResidue ==
    CHOOSE k \in 2..(modulus - 1) :
        /\ RefLegendre(k) = -1
        /\ \A j \in 2..(k - 1) : RefLegendre(j) # -1

RECURSIVE TwoAdicity(_)
\* the s of v = 2^s * q with q odd, for v >= 1
TwoAdicity(v) == IF v % 2 = 1 THEN 0 ELSE 1 + TwoAdicity(v \div 2)

RECURSIVE CeilLog2(_)
\* the least k with 2^k >= v, for v >= 1
CeilLog2(v) == IF v <= 1 THEN 0 ELSE 1 + CeilLog2((v + 1) \div 2)

(***************************************************************************)
(* C17: sqrt of a residue terminates.  The witness search goes from 1 + 1  *)
(* upwards through residues only and stops at the smallest n >= 2 with     *)
(* legendre(n) = -1, after fewer than p increments and without wrapping;   *)
(* the halving loop runs exactly s iterations, p - 1 = 2^s * q with q odd, *)
(* which is at most ceil(log2 p); and nothing past the entry checks fails. *)
(***************************************************************************)
C17_SqrtTerminates ==
    IsSqrtCall =>
        /\ pc = "sqrt_search"
               => /\ n \in 2..LeastNonResidue
                  /\ n - 2 < modulus
        /\ pc = "sqrt_loop"
               => /\ n = LeastNonResidue
                  /\ st.iters <= TwoAdicity(modulus - 1)
                  /\ st.iters <= CeilLog2(modulus)
                  /\ ~LoopCond(st) => st.iters = TwoAdicity(modulus - 1)
        /\ (pc = "done" /\ arg # Zero)
               => /\ n = LeastNonResidue
                  /\ st.iters = TwoAdicity(modulus - 1)
        /\ pc = "panic" => SqrtGuard(arg) \notin {"zero", "search"}

\* modulo 7 the search passes over the residue 2 and stops at 3
C17_Witness ==
    /\ IsSqrtCall /\ pc = "done" /\ modulus = 7
    /\ arg = 4 /\ n = 3 /\ st.iters = 1 /\ ret = 2

(***************************************************************************)
(* C18: in sqrt of a residue, every division by 1 + 1 of apow and of bpow  *)
(* (in the loop and after it, where apow + 1 is divided) is applied to an  *)
(* even integer view and is exact halving; the integer views of apow and   *)
(* bpow stay below p and bpow + m does not wrap; m is (p - 1) / 2; and     *)
(* a^apow * b^bpow mod p = 1 holds before and after each iteration.        *)
(***************************************************************************)
C18_HalvingIsExact ==
    (IsSqrtCall /\ pc = "sqrt_loop") =>
        LET two  == Add(One, One)
            apow == ToBiguint(st.apow)
            bpow == ToBiguint(st.bpow)
        IN  /\ ToBiguint(st.m) = (modulus - 1) \div 2
            /\ apow < modulus /\ bpow < modulus
            /\ (ModPow(st.a, apow, modulus) * ModPow(st.b, bpow, modulus))
                   % modulus = 1
            /\ bpow % 2 = 0
            /\ ToBiguint(Div(st.bpow, two)) = bpow \div 2
            /\ bpow \div 2 + ToBiguint(st.m) < modulus
            /\ LoopCond(st)
                   => /\ apow % 2 = 0
                      /\ ToBiguint(Div(st.apow, two)) = apow \div 2
            /\ ~LoopCond(st)
                   => /\ (apow + 1) % 2 = 0
                      /\ ToBiguint(Add(st.apow, One)) = apow + 1
                      /\ ToBiguint(Div(Add(st.apow, One), two))
                             = (apow + 1) \div 2

\* modulo 13, after two iterations, with bpow corrected by m
C18_Witness ==
    /\ IsSqrtCall /\ pc = "sqrt_loop" /\ modulus = 13
    /\ st.iters = 2 /\ st.apow = 3 /\ st.bpow # 0

(***************************************************************************)
(* C19: in the custom ring the default prime(), to_biguint(-one()) + 1, is *)
(* the ring's modulus, and legendre's exponent (-one()) / (one() + one())  *)
(* exists (the division does not fail) and has integer view (p - 1) / 2.   *)
(***************************************************************************)
C19_PrimeIsModulus ==
    op = "legendre" =>
        /\ Prime = modulus
        /\ ~DivPanics(Add(One, One))
        /\ ToBiguint(Div(Neg(One), Add(One, One))) = (modulus - 1) \div 2

\* legendre(3) modulo 11, where 3 = 5 * 5
C19_Witness ==
    /\ op = "legendre" /\ pc = "done" /\ modulus = 11 /\ arg = 3 /\ ret = 1
    /\ Prime = 11

\* a thread waiting for the lock waits for a holder that can go on
WaitsAreServed(t) ==
    (Busy(t) /\ Top(t).at = "lock") =>
        \/ Top(t).fn = "stat_exec" /\ CanWrite
        \/ Top(t).fn = "summary_exec" /\ CanRead
        \/ \E u \in Threads \ {t} :
              /\ lock.writer = u \/ u \in lock.readers
              /\ Busy(u) /\ Top(u).at \in {"push", "list"}

\* the ledger and the calls in progress, in one state
LedgerStateOk ==
    /\ Len(transcript) = Cardinality(returned)
    /\ {transcript[i].name : i \in 1..Len(transcript)} = returned
    /\ \A t \in Threads :
          /\ lock.writer = t
                 => Busy(t) /\ Top(t).fn = "stat_exec" /\ Top(t).at = "push"
          /\ t \in lock.readers
                 => Busy(t) /\ Top(t).fn = "summary_exec" /\ Top(t).at = "list"
          /\ (Busy(t) /\ Top(t).at \in {"closure", "lock"})
                 => lock.writer # t /\ t \notin lock.readers
          /\ WaitsAreServed(t)
          /\ (Busy(t) /\ Top(t).fn = "summary_exec" /\ Top(t).at = "list")
                 => Top(t).listed = SubSeq(transcript, 1, Top(t).idx - 1)

\* the ledger across one step
LedgerStepOk ==
    /\ transcript' # transcript
           => \E t \in Threads :
                 /\ Busy(t) /\ Top(t).fn = "stat_exec" /\ Top(t).at = "push"
                 /\ transcript' = Append(transcript,
                                         [name    |-> Top(t).name,
                                          elapsed |-> Top(t).elapsed])
                 /\ stack'[t] = SubSeq(stack[t], 1, Len(stack[t]) - 1)
                 /\ returned' = returned \cup {Top(t).name}
    /\ returned' # returned => Len(transcript') = Len(transcript) + 1
    /\ (pc' # pc \/ op' # op \/ coreVars' # coreVars)
           => transcript' = transcript /\ lock' = lock
    /\ \A t \in Threads :
           (Busy(t) /\ Top(t).fn = "summary_exec" /\ stack'[t] # stack[t])
               => transcript' = transcript

(***************************************************************************)
(* C20: TRANSCRIPT is append-only.  A step changes it only by appending    *)
(* the one (name, elapsed) entry of a stat_exec call that returns in that  *)
(* step, so its entries are exactly the returned calls, each once, also    *)
(* with two threads; the write lock is taken only after the closure has    *)
(* returned (a thread running a closure or waiting for the lock holds no   *)
(* lock, and it waits for a holder that can go on: no deadlock);           *)
(* summary_exec and the steps of legendre, sqrt and quadratic_residues_at  *)
(* leave it unchanged; and summary_exec lists its entries in order.        *)
(***************************************************************************)
C20_LedgerIsAppendOnly == []LedgerStateOk /\ [][LedgerStepOk]_vars

\* thread 1's closure called stat_exec again: the inner call is listed
\* first, and a summary_exec has just printed both
C20_Witness ==
    /\ Len(transcript) >= 2
    /\ transcript[1].name = 2 /\ transcript[2].name = 1
    /\ \E t \in Threads :
          /\ Busy(t) /\ Top(t).fn = "summary_exec" /\ Top(t).at = "list"
          /\ Top(t).listed = transcript

====
